---- MODULE Spec2Model ----
(***************************************************************************)
(* Attendance reconciliation of the gym backend: the device sync route     *)
(* GET /:id/attendance-logs, the offline route                             *)
(* POST /:id/sync-attendance-offline, the legacy service                   *)
(* syncAttendanceFromDevice and the closer autoCheckoutIncompleteRecords,  *)
(* over the AttendanceRecord table.                                        *)
(*                                                                         *)
(* Instants are whole hours counted from a reference UTC midnight; a       *)
(* calendar day is a day number.  Null stands for null/undefined.          *)
(***************************************************************************)
EXTENDS Integers, Sequences, FiniteSets, TLC

Null == -1

(* ---- bounds of the model ---- *)
MaxLogs == 2        \* entries the device log holds
MaxSyncs == 2       \* sync requests served in one behaviour

(* ---- inputs ---- *)
PunchTimes == {49, 50}
ClockTimes == {49, 82}
ServerTZs == {-5, 0, 5}        \* offset of the server's local time from UTC, hours
Gym == 1
\* DeviceUserMapping rows with isActive = true: deviceUserId 1 -> member 1
ActiveMappings == {<<1, 1>>}

VARIABLES
  records,      \* AttendanceRecord rows
  nextId,       \* autoincrement id of the next row
  lastSyncAt,   \* DeviceConfig.lastSyncAt
  devLogs,      \* attendance log stored on the device
  now,          \* server clock
  tz,           \* server timezone offset
  run,          \* the request being served
  syncs         \* requests served so far

vars == <<records, nextId, lastSyncAt, devLogs, now, tz, run, syncs>>

(* ---- Date arithmetic ---- *)
\* getUTCFullYear/getUTCMonth/getUTCDate of an instant
UTCDay(t) == t \div 24
\* getFullYear/getMonth/getDate of an instant (server local time)
LocalDay(t, z) == (t + z) \div 24
\* d.setHours(d.getHours() + 1)
PlusOneHour(t) == t + 1
\* d.setHours(d.getHours() - 1)
MinusOneHour(t) == t - 1

RECURSIVE SeqMin(_)
SeqMin(s) == IF Len(s) = 1 THEN s[1]
             ELSE LET m == SeqMin(Tail(s)) IN IF s[1] < m THEN s[1] ELSE m
RECURSIVE SeqMax(_)
SeqMax(s) == IF Len(s) = 1 THEN s[1]
             ELSE LET m == SeqMax(Tail(s)) IN IF s[1] > m THEN s[1] ELSE m

(* ---- device log entries ---- *)
\* entry of the current library format: { userSn, deviceUserId, recordTime }
NewLog(u, t) ==
  [deviceUserId |-> u, id |-> Null, uid |-> Null, userId |-> Null, userSn |-> Null,
   recordTime |-> t, timestamp |-> Null, type |-> Null, state |-> Null]
\* entry of the old format: { uid, id, state, timestamp, type }
OldLog(u, t, k) ==
  [deviceUserId |-> Null, id |-> u, uid |-> Null, userId |-> Null, userSn |-> Null,
   recordTime |-> Null, timestamp |-> t, type |-> k, state |-> Null]

LogEntries ==
  {NewLog(1, t) : t \in PunchTimes}
    \cup {OldLog(1, 47, 0), OldLog(1, 50, 1)}
    \cup {NewLog(2, 47)}

\* deviceUserToMemberMap.get(deviceUserId)
MemberOf(u) ==
  IF \E p \in ActiveMappings : p[1] = u
  THEN (CHOOSE p \in ActiveMappings : p[1] = u)[2]
  ELSE Null

\* logDate of an entry: recordTime, else timestamp, else none
LogDate(log) ==
  IF log.recordTime # Null THEN log.recordTime
  ELSE IF log.timestamp # Null THEN log.timestamp
  ELSE Null

\* device user id of an entry in the sync route
RouteUserId(log) ==
  IF log.deviceUserId # Null THEN log.deviceUserId
  ELSE IF log.id # Null THEN log.id
  ELSE IF log.uid # Null THEN log.uid
  ELSE IF log.userId # Null THEN log.userId
  ELSE IF log.userSn # Null THEN log.userSn
  ELSE Null

HasKind(log) == log.type # Null \/ log.state # Null
KindIsCheckIn(log) == log.type = 0 \/ (log.type = Null /\ log.state = 0)

(* ---- Daily Session Aggregator of the sync route ---- *)
EmptyAcc ==
  [groups |-> <<>>, processedLogs |-> 0, skippedNoTimestamp |-> 0,
   skippedDateFilter |-> 0, skippedNoUserId |-> 0, skippedUnmapped |-> 0]

\* 'YYYY-MM-DD' + 'T00:00:00.000Z'
parseDate(day) == day * 24

\* a window that starts at the start date only, whatever lastSyncAt is
StartDateOnly(fullSync, deviceLastSyncAt, startDate) ==
  IF startDate # Null THEN parseDate(startDate) ELSE Null

\* start of the window of punches a run considers
SyncStartTime(fullSync, deviceLastSyncAt, startDate) ==
  IF fullSync
  THEN (IF startDate # Null THEN parseDate(startDate) ELSE Null)
  ELSE IF deviceLastSyncAt # Null THEN deviceLastSyncAt
  ELSE IF startDate # Null THEN parseDate(startDate)
  ELSE Null

SyncEndTime(endDate) == IF endDate # Null THEN parseDate(endDate) ELSE Null

\* logsByMemberAndDate.has(key): position of the group, 0 when absent
GroupIndex(groups, m, d) ==
  IF \E i \in 1..Len(groups) : groups[i].memberId = m /\ groups[i].day = d
  THEN CHOOSE i \in 1..Len(groups) : groups[i].memberId = m /\ groups[i].day = d
  ELSE 0

\* isCheckIn of an entry, given the group it joins
RouteIsCheckIn(log, logDate, group) ==
  IF HasKind(log) THEN KindIsCheckIn(log)
  ELSE IF group.checkIns = <<>> /\ group.checkOuts = <<>> THEN TRUE
  ELSE IF group.checkIns = <<>> THEN TRUE
  ELSE IF group.checkOuts = <<>> THEN logDate <= group.checkIns[1]
  ELSE logDate < group.checkIns[1]

\* one iteration of `for (const log of logs)`
RouteAddLog(acc, log, syncStartTime, syncEndTime, z) ==
  LET logDate == LogDate(log)
      u == RouteUserId(log)
      m == MemberOf(u)
  IN IF logDate = Null
       THEN [acc EXCEPT !.skippedNoTimestamp = @ + 1]
     ELSE IF syncStartTime # Null /\ logDate <= syncStartTime
       THEN [acc EXCEPT !.skippedDateFilter = @ + 1]
     ELSE IF syncEndTime # Null /\ logDate > syncEndTime
       THEN [acc EXCEPT !.skippedDateFilter = @ + 1]
     ELSE IF u = Null
       THEN [acc EXCEPT !.skippedNoUserId = @ + 1]
     ELSE IF m = Null
       THEN [acc EXCEPT !.skippedUnmapped = @ + 1]
     ELSE
       LET d == LocalDay(logDate, z)
           i == GroupIndex(acc.groups, m, d)
           groups1 == IF i = 0
                      THEN Append(acc.groups,
                                  [memberId |-> m, day |-> d, checkIns |-> <<>>,
                                   checkOuts |-> <<>>, deviceUserId |-> u])
                      ELSE acc.groups
           j == IF i = 0 THEN Len(groups1) ELSE i
           g == groups1[j]
           g2 == IF RouteIsCheckIn(log, logDate, g)
                 THEN [g EXCEPT !.checkIns = Append(@, logDate)]
                 ELSE [g EXCEPT !.checkOuts = Append(@, logDate)]
       IN [acc EXCEPT !.processedLogs = @ + 1, !.groups = [groups1 EXCEPT ![j] = g2]]

RECURSIVE RouteGroupLogs(_, _, _, _, _)
RouteGroupLogs(acc, logs, syncStartTime, syncEndTime, z) ==
  IF logs = <<>> THEN acc
  ELSE RouteGroupLogs(RouteAddLog(acc, Head(logs), syncStartTime, syncEndTime, z),
                      Tail(logs), syncStartTime, syncEndTime, z)

\* earliestCheckIn / latestCheckOut / attendanceDate of a group
EarliestCheckIn(g) == IF Len(g.checkIns) > 0 THEN SeqMin(g.checkIns) ELSE Null
LatestCheckOut(g) == IF Len(g.checkOuts) > 0 THEN SeqMax(g.checkOuts) ELSE Null
AttendanceDate(g) ==
  IF EarliestCheckIn(g) # Null THEN EarliestCheckIn(g) ELSE LatestCheckOut(g)
\* dateOnly: the UTC calendar date of attendanceDate
RouteDateOnly(g) == UTCDay(AttendanceDate(g))

(* ---- AttendanceRecord table ---- *)
NoRecord == [id |-> Null]

\* the DATE column keeps the UTC calendar date of the Date it is given
DbDate(instant) == UTCDay(instant)

\* prisma.attendanceRecord.findUnique({ where: { gymId_memberId_date } })
FindUnique(recs, gymId, memberId, date) ==
  IF \E r \in recs : r.gymId = gymId /\ r.memberId = memberId /\ r.date = date
  THEN CHOOSE r \in recs : r.gymId = gymId /\ r.memberId = memberId /\ r.date = date
  ELSE NoRecord

\* a table without the unique index
NoUniqueIndex(recs, gymId, memberId, date) == FALSE

\* the unique index gymId_memberId_date rejects a second row (P2002)
UniqueViolation(recs, gymId, memberId, date) ==
  \E r \in recs : r.gymId = gymId /\ r.memberId = memberId /\ r.date = date

\* a create that leaves out the timestamps
NewRowWithoutTimes(id, gymId, memberId, date, cin, cout) ==
  [id |-> id, gymId |-> gymId, memberId |-> memberId, date |-> date,
   checkInTime |-> Null, checkOutTime |-> Null]

\* prisma.attendanceRecord.create({ data })
NewRow(id, gymId, memberId, date, cin, cout) ==
  [id |-> id, gymId |-> gymId, memberId |-> memberId, date |-> date,
   checkInTime |-> cin, checkOutTime |-> cout]

\* a repair that looks at the rows of every tenant
MismatchOfAnyTenant(r, gymId, memberId, day) ==
  /\ r.memberId = memberId
  /\ (r.checkInTime # Null \/ r.checkOutTime # Null)
  /\ LET recordCheckInDate == IF r.checkInTime # Null THEN r.checkInTime
                              ELSE r.checkOutTime
     IN UTCDay(recordCheckInDate) = day /\ r.date # day

\* a stored row of the member whose check-in (else check-out) falls on the
\* target UTC date while its date field differs
IsDateMismatch(r, gymId, memberId, day) ==
  /\ r.gymId = gymId
  /\ r.memberId = memberId
  /\ (r.checkInTime # Null \/ r.checkOutTime # Null)
  /\ LET recordCheckInDate == IF r.checkInTime # Null THEN r.checkInTime
                              ELSE r.checkOutTime
     IN UTCDay(recordCheckInDate) = day /\ r.date # day

\* a repair that deletes nothing
KeepDateMismatch(recs, gymId, memberId, day) == recs

FixDateMismatch(recs, gymId, memberId, day) ==
  {r \in recs : ~IsDateMismatch(r, gymId, memberId, day)}

\* an update that writes the session's check-in whatever is stored
RouteSessionCheckIn(existing, earliestCheckIn) == earliestCheckIn

\* updateData.checkInTime / checkOutTime of the sync route for an existing row
RouteNewCheckIn(existing, earliestCheckIn) ==
  IF earliestCheckIn # Null
  THEN (IF existing.checkInTime = Null \/ earliestCheckIn < existing.checkInTime
        THEN earliestCheckIn ELSE existing.checkInTime)
  ELSE existing.checkInTime

RouteNewCheckOut(existing, latestCheckOut) ==
  IF latestCheckOut # Null
  THEN (IF existing.checkOutTime = Null \/ latestCheckOut > existing.checkOutTime
        THEN latestCheckOut ELSE existing.checkOutTime)
  ELSE existing.checkOutTime

RouteWasUpdated(existing, earliestCheckIn, latestCheckOut) ==
  \/ earliestCheckIn # Null
       /\ (existing.checkInTime = Null \/ earliestCheckIn < existing.checkInTime)
  \/ latestCheckOut # Null
       /\ (existing.checkOutTime = Null \/ latestCheckOut > existing.checkOutTime)

(* ---- Incomplete-Session Closer ---- *)
\* today.setHours(0, 0, 0, 0): local midnight of the server's current day
TodayMidnight(t, z) == LocalDay(t, z) * 24 - z

\* the rows autoCheckoutIncompleteRecords selects
IsIncomplete(r, gymId, t, z) ==
  /\ r.gymId = gymId
  /\ r.checkInTime # Null
  /\ r.checkOutTime = Null
  /\ parseDate(r.date) < TodayMidnight(t, z)

autoCheckoutIncompleteRecords(recs, gymId, t, z) ==
  {IF IsIncomplete(r, gymId, t, z)
   THEN [r EXCEPT !.checkOutTime = PlusOneHour(r.checkInTime)]
   ELSE r : r \in recs}

(* ---- Device Transport Client ---- *)
\* what one call of the device library may answer: an array, { data: [...] },
\* { users: [...] }, null, an object whose data is no array, an object with
\* neither data nor users, a timeout error, another error
DeviceAnswers == {"array", "data", "users", "null", "nodata", "other", "timeout", "error"}
\* answers that carry the stored log
GoodAnswers == {"array", "data"}
\* what the device would answer to a first, second and third call
DeviceBehaviours == {<<a, "array", "array">> : a \in DeviceAnswers}
\* the behaviours tried when requests are served one after the other
SequentialBehaviours == {b \in DeviceBehaviours : b[1] \in {"data", "timeout"}}
\* the behaviours tried when requests interleave
InterleavedBehaviours ==
  {b \in DeviceBehaviours : b[1] \in {"array", "nodata", "timeout", "error"}}

\* ZKTService.getAttendanceLogs: the sequence it returns when the call does
\* not throw; only the first answer of the device is ever asked for
getAttendanceLogs(answers, stored) ==
  LET attendances == answers[1]
  IN IF attendances = "null" THEN <<>>
     ELSE IF attendances = "data" THEN stored
     ELSE IF attendances = "nodata" THEN <<>>
     ELSE IF attendances = "array" THEN stored
     ELSE <<>>

\* ZKTService.getUsers: the sequence it returns when device.getUsers() does
\* not throw
getUsers(answers, stored) ==
  LET result == answers[1]
  IN IF result = "null" THEN <<>>
     ELSE IF result = "data" THEN stored
     ELSE IF result = "nodata" THEN <<>>
     ELSE IF result = "array" THEN stored
     ELSE IF result = "users" THEN stored
     ELSE <<>>

\* ZKTService.getAttendanceLogs rethrows what device.getAttendances() throws
FetchThrows(answers) == answers[1] \in {"timeout", "error"}

\* underlying getAttendances() calls one getAttendanceLogs(retries) makes
FetchCalls(retries) == 1

(* ---- syncAttendanceFromDevice (POST /:id/sync-attendance) ---- *)
\* logs.filter(...) by the optional date range; an entry without timestamp
\* gives an invalid Date, which no comparison filters out
LegacyFilter(logs, startDate, endDate) ==
  LET keep(log) ==
        /\ ~(startDate # Null /\ log.timestamp # Null /\ log.timestamp < startDate)
        /\ ~(endDate # Null /\ log.timestamp # Null /\ log.timestamp > endDate)
  IN SelectSeq(logs, keep)

\* device user id of an entry in the legacy service: id, else uid
LegacyUserId(log) ==
  IF log.id # Null THEN log.id
  ELSE IF log.uid # Null THEN log.uid
  ELSE Null

\* dateOnly = new Date(y, m, d) of the server's local day, as stored
LocalDateOnly(t, z) == DbDate(LocalDay(t, z) * 24 - z)

\* the entry is skipped with errors++
LegacySkips(log) ==
  \/ LegacyUserId(log) = Null
  \/ log.timestamp = Null
  \/ MemberOf(LegacyUserId(log)) = Null

\* updateData.checkInTime of the legacy service (Null: not set)
LegacyNewCheckIn(existing, log) ==
  LET logDate == log.timestamp
      typed == IF KindIsCheckIn(log)
                  /\ (existing.checkInTime = Null \/ logDate < existing.checkInTime)
               THEN logDate ELSE Null
  IN IF HasKind(log) THEN typed
     ELSE IF existing.checkInTime = Null THEN logDate
     ELSE IF existing.checkOutTime = Null /\ logDate > existing.checkInTime THEN typed
     ELSE IF logDate < existing.checkInTime THEN logDate
     ELSE typed

\* updateData.checkOutTime of the legacy service (Null: not set)
LegacyNewCheckOut(existing, log) ==
  LET logDate == log.timestamp
      typed == IF ~KindIsCheckIn(log)
                  /\ (existing.checkOutTime = Null \/ logDate > existing.checkOutTime)
               THEN logDate ELSE Null
  IN IF HasKind(log) THEN typed
     ELSE IF existing.checkInTime = Null THEN typed
     ELSE IF existing.checkOutTime = Null /\ logDate > existing.checkInTime THEN logDate
     ELSE typed

(* ---- requests ---- *)
Runs == {1, 2}
StartDates == {Null, 2}
EndDates == {Null, 2}

\* no response body yet
NoSummary == [sent |-> FALSE]

\* a request: where its handler stands and the handler's local variables
IdleRun ==
  [pc |-> "idle", route |-> "none", fullSync |-> FALSE, syncStartTime |-> Null,
   syncEndTime |-> Null, deviceLastSyncAt |-> Null, held |-> FALSE, calls |-> 0,
   logs |-> <<>>, groups |-> <<>>, existing |-> NoRecord, synced |-> 0,
   errors |-> 0, deleted |-> 0, response |-> "none", before |-> {},
   untouched |-> TRUE, acc |-> EmptyAcc, repeated |-> FALSE, inTry |-> FALSE,
   sessions |-> {}, answers |-> <<>>, fallbacks |-> 0,
   deletedRecordsCount |-> 0, formattedCheckIns |-> 0, formattedCheckOuts |-> 0,
   newLastSyncAt |-> Null, summary |-> NoSummary, autoCheckedOut |-> 0,
   prevIncremental |-> FALSE, prevLogs |-> <<>>]

\* what a handler step reads and writes: the table, the device row and the
\* handler's own variables
World(rn) == [records |-> records, nextId |-> nextId, lastSyncAt |-> lastSyncAt, rn |-> rn]

\* what a handler step only reads: the device log, the clock, the timezone
\* and the next answer of the device
Env(answers) == [devLogs |-> devLogs, now |-> now, tz |-> tz, answers |-> answers]

\* where a run goes after a group
AfterGroup(rn) == IF Tail(rn.groups) = <<>> THEN "advance" ELSE "find"

\* prisma.attendanceRecord.update({ where: { id }, data }) on the table:
\* the row with that id gets the fields the data carries
UpdateRow(recs, id, setIn, cin, setOut, cout) ==
  {IF x.id = id
   THEN [x EXCEPT !.checkInTime = IF setIn THEN cin ELSE @,
                  !.checkOutTime = IF setOut THEN cout ELSE @]
   ELSE x : x \in recs}

\* a handler that gives up the batch when one write throws
WriteErrorAborts(next) ==
  [next EXCEPT !.errors = @ + 1, !.response = "error", !.groups = <<>>, !.pc = "finish"]

\* the catch around one group (one log entry): errors++, and the loop goes on
WriteError(next) == [next EXCEPT !.errors = @ + 1]

(* ---- GET /:id/attendance-logs ---- *)
\* the request arrives: the device config is read and the device connected
RouteBegin(w, fullSync, startDate, endDate, connected) ==
  [w EXCEPT !.rn =
    [IdleRun EXCEPT !.route = "route", !.fullSync = fullSync,
                    !.syncStartTime = SyncStartTime(fullSync, w.lastSyncAt, startDate),
                    !.syncEndTime = SyncEndTime(endDate),
                    !.deviceLastSyncAt = w.lastSyncAt,
                    !.held = connected, !.inTry = connected,
                    !.response = IF connected THEN "none" ELSE "error",
                    !.pc = IF connected THEN "fetch" ELSE "finish",
                    !.before = w.records,
                    !.prevIncremental = w.rn.prevIncremental
                                          /\ w.rn.syncEndTime = SyncEndTime(endDate),
                    !.prevLogs = w.rn.prevLogs]]

\* the groups of a run, from the logs it fetched
RouteAcc(rn, z) ==
  RouteGroupLogs(EmptyAcc, rn.logs, rn.syncStartTime, rn.syncEndTime, z)

\* a fetch that takes a failure of the device for an empty log
FetchFailureAsEmpty(w, env) ==
  LET rn == [w.rn EXCEPT !.calls = FetchCalls(3), !.answers = env.answers, !.logs = <<>>]
  IN [w EXCEPT !.rn = [rn EXCEPT !.pc = IF rn.fullSync THEN "wipe" ELSE "advance"]]

\* zktService.getAttendanceLogs(3) and, in an incremental run, the grouping
RouteFetchLogs(w, env) ==
  LET rn == [w.rn EXCEPT !.calls = FetchCalls(3), !.answers = env.answers]
      logs == getAttendanceLogs(env.answers, env.devLogs)
      rl == [rn EXCEPT !.logs = logs,
                       !.repeated = ~rn.fullSync /\ rn.prevIncremental /\ logs = rn.prevLogs]
      acc == RouteAcc(rl, env.tz)
  IN IF FetchThrows(env.answers) /\ env.answers[1] = "timeout"
       THEN [w EXCEPT !.rn = [rn EXCEPT !.response = "timeout", !.pc = "finish"]]
     ELSE IF FetchThrows(env.answers)
       THEN [w EXCEPT !.rn = [rn EXCEPT !.response = "error", !.pc = "finish"]]
     ELSE IF rl.fullSync
       THEN [w EXCEPT !.rn = [rl EXCEPT !.pc = "wipe"]]
     ELSE [w EXCEPT !.rn =
            [rl EXCEPT !.acc = acc, !.groups = acc.groups,
                       !.pc = IF acc.groups = <<>> THEN "advance" ELSE "find"]]

\* a full sync that forgets the deleteMany
RouteDeleteNothing(w, env) ==
  LET acc == RouteAcc(w.rn, env.tz)
  IN [w EXCEPT !.rn = [@ EXCEPT !.acc = acc, !.groups = acc.groups,
                                !.pc = IF acc.groups = <<>> THEN "advance" ELSE "find"]]

\* fullSync: deleteMany({ where: { gymId } }), then the grouping
RouteDeleteMany(w, env) ==
  LET gone == {x \in w.records : x.gymId = Gym}
      acc == RouteAcc(w.rn, env.tz)
  IN [w EXCEPT !.records = @ \ gone,
               !.rn = [@ EXCEPT !.deleted = Cardinality(gone),
                                !.deletedRecordsCount = Cardinality(gone), !.acc = acc,
                                !.groups = acc.groups,
                                !.pc = IF acc.groups = <<>> THEN "advance" ELSE "find"]]

\* one group: the mismatch repair and the lookup of the row of the target date
RouteFindRecord(w) ==
  LET g == Head(w.rn.groups)
      day == RouteDateOnly(g)
      kept == FixDateMismatch(w.records, Gym, g.memberId, day)
  IN IF (Len(g.checkIns) = 0 /\ Len(g.checkOuts) = 0) \/ AttendanceDate(g) = Null
     THEN [w EXCEPT !.rn = [@ EXCEPT !.groups = Tail(@), !.pc = AfterGroup(w.rn)]]
     ELSE [w EXCEPT !.records = kept,
                    !.rn = [@ EXCEPT !.deleted = @ + Cardinality(w.records \ kept),
                                     !.deletedRecordsCount =
                                        @ + Cardinality(w.records \ kept),
                                     !.sessions = @ \cup {[memberId |-> g.memberId,
                                                           date |-> day]},
                                     !.existing = FindUnique(kept, Gym, g.memberId, day),
                                     !.pc = "write"]]

\* a create that swallows the P2002 and goes on without the stored row
SwallowP2002(recs, gymId, memberId, date) == NoRecord

\* createError.code === 'P2002': the row is fetched, to be updated instead
P2002Fallback(recs, gymId, memberId, date) == FindUnique(recs, gymId, memberId, date)

\* one group: create the row, or extend the row that was found
RouteWriteRecord(w) ==
  LET rn == w.rn
      g == Head(rn.groups)
      day == RouteDateOnly(g)
      cin == EarliestCheckIn(g)
      cout == LatestCheckOut(g)
      create == rn.existing.id = Null
      p2002 == create /\ UniqueViolation(w.records, Gym, g.memberId, day)
      existing == IF p2002 THEN P2002Fallback(w.records, Gym, g.memberId, day)
                  ELSE rn.existing
      next == [rn EXCEPT !.groups = Tail(@), !.existing = NoRecord,
                         !.fallbacks = IF p2002 THEN @ + 1 ELSE @,
                         !.pc = AfterGroup(rn)]
      \* formattedLogs.push of a CHECK_IN and of a CHECK_OUT entry
      logged == [next EXCEPT !.formattedCheckIns = IF cin # Null THEN @ + 1 ELSE @,
                             !.formattedCheckOuts = IF cout # Null THEN @ + 1 ELSE @]
  IN IF create /\ ~p2002
       THEN [w EXCEPT !.records = @ \cup {NewRow(w.nextId, Gym, g.memberId, day, cin, cout)},
                      !.nextId = @ + 1,
                      !.rn = [logged EXCEPT !.synced = @ + 1]]
     ELSE IF existing.id = Null
       THEN [w EXCEPT !.rn = next]
     ELSE IF ~RouteWasUpdated(existing, cin, cout)
       THEN [w EXCEPT !.rn = next]
     ELSE IF \E x \in w.records : x.id = existing.id
       THEN [w EXCEPT !.records = UpdateRow(@, existing.id,
                                            cin # Null \/ existing.checkInTime # Null,
                                            RouteNewCheckIn(existing, cin),
                                            cout # Null \/ existing.checkOutTime # Null,
                                            RouteNewCheckOut(existing, cout)),
                      !.rn = [logged EXCEPT !.synced = @ + 1]]
     ELSE \* the row was deleted meanwhile: update throws, errors++
          [w EXCEPT !.rn = WriteError(next)]

(* ---- syncAttendanceFromDevice: the handler ---- *)
LegacyBegin(w, startDate, endDate, connected) ==
  [w EXCEPT !.rn =
    [IdleRun EXCEPT !.route = "legacy",
                    !.syncStartTime = IF startDate # Null THEN parseDate(startDate) ELSE Null,
                    !.syncEndTime = SyncEndTime(endDate),
                    !.deviceLastSyncAt = w.lastSyncAt,
                    !.held = connected, !.inTry = TRUE,
                    !.response = IF connected THEN "none" ELSE "error",
                    !.pc = IF connected THEN "fetch" ELSE "finish",
                    !.before = w.records]]

\* zktService.getAttendanceLogs() and the date-range filter
LegacyFetchLogs(w, env) ==
  LET rn == [w.rn EXCEPT !.calls = FetchCalls(1), !.answers = env.answers]
      logs == getAttendanceLogs(env.answers, env.devLogs)
      todo == LegacyFilter(logs, rn.syncStartTime, rn.syncEndTime)
  IN IF FetchThrows(env.answers)
     THEN [w EXCEPT !.rn = [rn EXCEPT !.response = "error", !.pc = "finish"]]
     ELSE [w EXCEPT !.rn = [rn EXCEPT !.logs = logs, !.groups = todo,
                                      !.pc = IF todo = <<>> THEN "advance" ELSE "find"]]

\* one log entry: the skips, or the lookup of the row of its local day
LegacyFindRecord(w, env) ==
  LET log == Head(w.rn.groups)
  IN IF LegacySkips(log)
     THEN [w EXCEPT !.rn = [@ EXCEPT !.errors = @ + 1, !.groups = Tail(@),
                                     !.pc = AfterGroup(w.rn)]]
     ELSE [w EXCEPT !.rn =
            [@ EXCEPT !.existing = FindUnique(w.records, Gym, MemberOf(LegacyUserId(log)),
                                              LocalDateOnly(log.timestamp, env.tz)),
                      !.pc = "write"]]

\* one log entry: update the row found, or create it
LegacyWriteRecord(w, env) ==
  LET rn == w.rn
      log == Head(rn.groups)
      memberId == MemberOf(LegacyUserId(log))
      date == LocalDateOnly(log.timestamp, env.tz)
      existing == rn.existing
      cin == LegacyNewCheckIn(existing, log)
      cout == LegacyNewCheckOut(existing, log)
      next == [rn EXCEPT !.groups = Tail(@), !.existing = NoRecord, !.pc = AfterGroup(rn)]
  IN IF existing.id # Null
     THEN IF cin = Null /\ cout = Null
            THEN [w EXCEPT !.rn = next]
          ELSE IF \E x \in w.records : x.id = existing.id
            THEN [w EXCEPT !.records = UpdateRow(@, existing.id, cin # Null, cin,
                                                 cout # Null, cout),
                           !.rn = [next EXCEPT !.synced = @ + 1]]
          ELSE [w EXCEPT !.rn = WriteError(next)]
     ELSE IF UniqueViolation(w.records, Gym, memberId, date)
            THEN [w EXCEPT !.rn = WriteError(next)]
          ELSE [w EXCEPT !.records = @ \cup
                           {NewRow(w.nextId, Gym, memberId, date,
                                   IF KindIsCheckIn(log) THEN log.timestamp ELSE Null,
                                   IF ~KindIsCheckIn(log) THEN log.timestamp ELSE Null)},
                         !.nextId = @ + 1,
                         !.rn = [next EXCEPT !.synced = @ + 1]]

(* ---- POST /:id/sync-attendance-offline ---- *)
\* device user id of an entry in the offline route
OfflineUserId(log) ==
  IF log.deviceUserId # Null THEN log.deviceUserId
  ELSE IF log.id # Null THEN log.id
  ELSE IF log.uid # Null THEN log.uid
  ELSE Null

\* isCheckIn of a ProcessedLog: "in" (true), "out" (false), "none" (null)
OfflineKind(log) ==
  IF log.type # Null THEN (IF log.type = 0 THEN "in" ELSE "out")
  ELSE IF log.state # Null THEN (IF log.state = 0 THEN "in" ELSE "out")
  ELSE "none"

\* the entry yields no ProcessedLog
OfflineSkips(log) ==
  \/ OfflineUserId(log) = Null
  \/ LogDate(log) = Null
  \/ MemberOf(OfflineUserId(log)) = Null

\* processedLogs grouped by member and local day, in order of arrival
OfflineAddLog(groups, log, z) ==
  IF OfflineSkips(log) THEN groups
  ELSE
    LET m == MemberOf(OfflineUserId(log))
        d == LocalDay(LogDate(log), z)
        p == [logDate |-> LogDate(log), isCheckIn |-> OfflineKind(log)]
        i == GroupIndex(groups, m, d)
    IN IF i = 0
       THEN Append(groups, [memberId |-> m, day |-> d,
                            deviceUserId |-> OfflineUserId(log), logs |-> <<p>>])
       ELSE [groups EXCEPT ![i].logs = Append(@, p)]

RECURSIVE OfflineGroupLogs(_, _, _)
OfflineGroupLogs(groups, logs, z) ==
  IF logs = <<>> THEN groups
  ELSE OfflineGroupLogs(OfflineAddLog(groups, Head(logs), z), Tail(logs), z)

RECURSIVE LogDatesOf(_, _)
LogDatesOf(ps, kind) ==
  IF ps = <<>> THEN <<>>
  ELSE IF Head(ps).isCheckIn = kind THEN <<Head(ps).logDate>> \o LogDatesOf(Tail(ps), kind)
  ELSE LogDatesOf(Tail(ps), kind)

Dist(a, b) == IF a < b THEN b - a ELSE a - b

\* one iteration of `for (const unknownLog of unknownLogs)`
OfflineResolveOne(cs, unknownLog, earliestLog, latestLog, n) ==
  LET checkIns == cs.checkIns
      checkOuts == cs.checkOuts
      earliestKnownCheckIn == IF Len(checkIns) > 0 THEN checkIns[1] ELSE Null
      latestKnownCheckOut == IF Len(checkOuts) > 0 THEN checkOuts[Len(checkOuts)] ELSE Null
      asIn == [cs EXCEPT !.checkIns = Append(@, unknownLog)]
      asOut == [cs EXCEPT !.checkOuts = Append(@, unknownLog)]
  IN IF earliestKnownCheckIn # Null /\ unknownLog < earliestKnownCheckIn THEN asIn
     ELSE IF latestKnownCheckOut # Null /\ unknownLog > latestKnownCheckOut THEN asOut
     ELSE IF earliestKnownCheckIn # Null /\ latestKnownCheckOut # Null
       THEN (IF Dist(unknownLog, earliestKnownCheckIn) < Dist(unknownLog, latestKnownCheckOut)
             THEN asIn ELSE asOut)
     ELSE IF earliestKnownCheckIn # Null
       THEN (IF unknownLog > checkIns[Len(checkIns)] THEN asOut ELSE asIn)
     ELSE IF latestKnownCheckOut # Null
       THEN (IF unknownLog < SeqMin(checkOuts) THEN asIn ELSE asOut)
     ELSE IF unknownLog = earliestLog THEN asIn
     ELSE IF unknownLog = latestLog /\ n > 1 THEN asOut
     ELSE asIn

RECURSIVE OfflineResolve(_, _, _, _, _)
OfflineResolve(cs, unknownLogs, earliestLog, latestLog, n) ==
  IF unknownLogs = <<>> THEN cs
  ELSE OfflineResolve(OfflineResolveOne(cs, Head(unknownLogs), earliestLog, latestLog, n),
                      Tail(unknownLogs), earliestLog, latestLog, n)

\* checkIns / checkOuts of a group once its unknownLogs are resolved
OfflineResolved(g) ==
  LET all == [i \in 1..Len(g.logs) |-> g.logs[i].logDate]
  IN OfflineResolve([checkIns |-> LogDatesOf(g.logs, "in"),
                     checkOuts |-> LogDatesOf(g.logs, "out")],
                    LogDatesOf(g.logs, "none"), SeqMin(all), SeqMax(all), Len(all))

\* finalCheckIn / finalCheckOut of a group
OfflineSession(g) ==
  LET cs == OfflineResolved(g)
      in0 == IF Len(cs.checkIns) > 0 THEN SeqMin(cs.checkIns) ELSE Null
      out0 == IF Len(cs.checkOuts) > 0 THEN SeqMax(cs.checkOuts) ELSE Null
      out1 == IF in0 # Null /\ out0 = Null THEN PlusOneHour(in0) ELSE out0
      in1 == IF out1 # Null /\ in0 = Null THEN MinusOneHour(out1) ELSE in0
      out2 == IF in1 # Null /\ out1 # Null /\ out1 <= in1 THEN PlusOneHour(in1) ELSE out1
  IN [checkIn |-> in1, checkOut |-> out2]

OfflineBegin(w, env) ==
  LET groups == OfflineGroupLogs(<<>>, env.devLogs, env.tz)
  IN [w EXCEPT !.rn =
       [IdleRun EXCEPT !.route = "offline", !.logs = env.devLogs, !.groups = groups,
                       !.deviceLastSyncAt = w.lastSyncAt, !.before = w.records,
                       !.pc = IF groups = <<>> THEN "advance" ELSE "find"]]

\* one group: the lookup of the row of the group's local day
OfflineFindRecord(w, env) ==
  LET g == Head(w.rn.groups)
      ses == OfflineSession(g)
  IN IF ses.checkIn = Null /\ ses.checkOut = Null
     THEN [w EXCEPT !.rn = [@ EXCEPT !.errors = @ + 1, !.groups = Tail(@),
                                     !.pc = AfterGroup(w.rn)]]
     ELSE [w EXCEPT !.rn =
            [@ EXCEPT !.existing = FindUnique(w.records, Gym, g.memberId,
                                              DbDate(g.day * 24 - env.tz)),
                      !.pc = "write"]]

\* one group: overwrite the row found, or create it
OfflineWriteRecord(w, env) ==
  LET rn == w.rn
      g == Head(rn.groups)
      ses == OfflineSession(g)
      date == DbDate(g.day * 24 - env.tz)
      next == [rn EXCEPT !.groups = Tail(@), !.existing = NoRecord, !.pc = AfterGroup(rn)]
  IN IF rn.existing.id # Null
     THEN IF \E x \in w.records : x.id = rn.existing.id
            THEN [w EXCEPT !.records = UpdateRow(@, rn.existing.id, TRUE, ses.checkIn,
                                                 TRUE, ses.checkOut),
                           !.rn = [next EXCEPT !.synced = @ + 1]]
          ELSE [w EXCEPT !.rn = WriteError(next)]
     ELSE IF UniqueViolation(w.records, Gym, g.memberId, date)
            THEN [w EXCEPT !.rn = WriteError(next)]
          ELSE [w EXCEPT !.records = @ \cup {NewRow(w.nextId, Gym, g.memberId, date,
                                                    ses.checkIn, ses.checkOut)},
                         !.nextId = @ + 1,
                         !.rn = [next EXCEPT !.synced = @ + 1]]

(* ---- end of every sync ---- *)
\* a run that leaves lastSyncAt as it found it
KeepLastSyncAt(w, env) ==
  [w EXCEPT !.rn = [@ EXCEPT !.untouched = (w.records = w.rn.before),
                             !.newLastSyncAt = env.now, !.pc = "close"]]

\* deviceConfig.update({ data: { lastSyncAt: new Date() } }); the
\* reconciliation loop is over
AdvanceLastSync(w, env) ==
  [w EXCEPT !.lastSyncAt = env.now,
            !.rn = [@ EXCEPT !.untouched = (w.records = w.rn.before),
                             !.newLastSyncAt = env.now, !.pc = "close"]]

\* the body sendSuccess answers with: the summary object of the sync route,
\* { synced, errors } of the offline route and of the legacy service
Summary(rn) ==
  IF rn.route = "route"
  THEN [sent |-> TRUE,
        totalRecords |-> rn.formattedCheckIns + rn.formattedCheckOuts,
        checkInsCount |-> rn.formattedCheckIns,
        checkOutsCount |-> rn.formattedCheckOuts,
        syncedCount |-> rn.synced,
        errorCount |-> rn.errors,
        deletedCount |-> rn.deletedRecordsCount,
        lastSyncAt |-> rn.newLastSyncAt,
        previousSyncAt |-> rn.deviceLastSyncAt,
        dateRange |-> [start |-> IF rn.syncStartTime # Null THEN UTCDay(rn.syncStartTime)
                                 ELSE Null,
                       end |-> IF rn.syncEndTime # Null THEN UTCDay(rn.syncEndTime)
                               ELSE Null],
        isFullSync |-> rn.fullSync]
  ELSE [sent |-> TRUE, synced |-> rn.synced, errors |-> rn.errors]

\* a handler that answers without the closer pass
AnswerWithoutClosing(w, env) ==
  [w EXCEPT !.rn = [@ EXCEPT !.response = "ok", !.summary = Summary(w.rn), !.pc = "finish"]]

\* await autoCheckoutIncompleteRecords(gymId), then the response
CloseIncomplete(w, env) ==
  [w EXCEPT !.records = autoCheckoutIncompleteRecords(@, Gym, env.now, env.tz),
            !.rn = [@ EXCEPT !.autoCheckedOut =
                               Cardinality({x \in w.records :
                                              IsIncomplete(x, Gym, env.now, env.tz)}),
                             !.response = "ok", !.summary = Summary(w.rn), !.pc = "finish"]]

\* what stays of a request once it is answered: its summary, and what an
\* incremental run of the sync route fetched (to tell a repeated run)
Answered(rn) ==
  LET incremental == /\ rn.route = "route" /\ ~rn.fullSync /\ rn.response = "ok"
                     /\ rn.syncStartTime = rn.deviceLastSyncAt
  IN [IdleRun EXCEPT !.pc = "done", !.route = rn.route, !.fullSync = rn.fullSync,
                     !.response = rn.response, !.synced = rn.synced,
                     !.errors = rn.errors, !.deleted = rn.deleted,
                     !.untouched = rn.untouched, !.calls = rn.calls,
                     !.repeated = rn.repeated,
                     !.held = rn.held, !.inTry = rn.inTry, !.sessions = rn.sessions,
                     !.fallbacks = rn.fallbacks, !.summary = rn.summary,
                     !.autoCheckedOut = rn.autoCheckedOut,
                     !.prevIncremental = incremental,
                     !.syncEndTime = IF incremental THEN rn.syncEndTime ELSE Null,
                     !.prevLogs = IF incremental THEN rn.logs ELSE <<>>]

\* zktService.disconnect()
disconnect(rn) == [rn EXCEPT !.held = FALSE]

\* a handler whose early return after a device timeout skips the disconnect
ReturnWithoutDisconnect(w) ==
  [w EXCEPT !.rn = IF w.rn.inTry /\ w.rn.response # "timeout"
                   THEN Answered(disconnect(w.rn)) ELSE Answered(w.rn)]

\* the handler returns or throws; `finally { await zktService.disconnect() }`
\* runs when the try block had been entered
FinishRequest(w) ==
  [w EXCEPT !.rn = IF w.rn.inTry THEN Answered(disconnect(w.rn)) ELSE Answered(w.rn)]

(* ---- a handler, step by step ---- *)
\* the next step of the request in w.rn
HandlerStep(w, env) ==
  LET rn == w.rn
  IN CASE rn.pc = "fetch" ->
            (IF rn.route = "route" THEN RouteFetchLogs(w, env) ELSE LegacyFetchLogs(w, env))
       [] rn.pc = "wipe" -> RouteDeleteMany(w, env)
       [] rn.pc = "find" ->
            (IF rn.route = "route" THEN RouteFindRecord(w)
             ELSE IF rn.route = "legacy" THEN LegacyFindRecord(w, env)
             ELSE OfflineFindRecord(w, env))
       [] rn.pc = "write" ->
            (IF rn.route = "route" THEN RouteWriteRecord(w)
             ELSE IF rn.route = "legacy" THEN LegacyWriteRecord(w, env)
             ELSE OfflineWriteRecord(w, env))
       [] rn.pc = "advance" -> AdvanceLastSync(w, env)
       [] rn.pc = "close" -> CloseIncomplete(w, env)
       [] rn.pc = "finish" -> FinishRequest(w)
       [] OTHER -> w

\* a handler run to its end with no other request in between
RECURSIVE RunToEnd(_, _)
RunToEnd(w, env) ==
  IF w.rn.pc \in {"idle", "done"} THEN w ELSE RunToEnd(HandlerStep(w, env), env)

InFlight == {r \in Runs : run[r].pc \notin {"idle", "done"}}

Init ==
  /\ records = {}
  /\ nextId = 1
  /\ lastSyncAt = Null
  /\ devLogs = <<>>
  /\ now = 49
  /\ tz \in ServerTZs
  /\ run = [r \in Runs |-> IdleRun]
  /\ syncs = 0

\* a member punches: the device stores one more entry
Punch(e) ==
  /\ InFlight = {}
  /\ Len(devLogs) < MaxLogs
  /\ devLogs' = Append(devLogs, e)
  /\ UNCHANGED <<records, nextId, lastSyncAt, now, tz, run, syncs>>

\* the server clock advances
Tick(t) ==
  /\ InFlight = {}
  /\ t > now
  /\ now' = t
  /\ UNCHANGED <<records, nextId, lastSyncAt, devLogs, tz, run, syncs>>

\* the effect of a handler (or of one step of it) on the database and on
\* the request in slot r
Apply(r, w) ==
  /\ records' = w.records
  /\ nextId' = w.nextId
  /\ lastSyncAt' = w.lastSyncAt
  /\ run' = [run EXCEPT ![r] = w.rn]
  /\ UNCHANGED <<devLogs, now, tz>>

(* ---- requests served one after the other ---- *)
\* the behaviours with which the fetch throws: the date range of the request
\* is then never looked at
FailingBehaviours == {b \in SequentialBehaviours : FetchThrows(b)}

GetAttendanceLogs(fullSync, startDate, endDate, connected, answers) ==
  /\ syncs < MaxSyncs
  /\ syncs' = syncs + 1
  /\ Apply(1, RunToEnd(RouteBegin(World(run[1]), fullSync, startDate, endDate, connected),
                       Env(answers)))

PostSyncAttendance(startDate, endDate, connected, answers) ==
  /\ syncs < MaxSyncs
  /\ syncs' = syncs + 1
  /\ Apply(1, RunToEnd(LegacyBegin(World(run[1]), startDate, endDate, connected),
                       Env(answers)))

PostSyncAttendanceOffline ==
  /\ syncs < MaxSyncs
  /\ syncs' = syncs + 1
  /\ Apply(1, RunToEnd(OfflineBegin(World(run[1]), Env(<<>>)), Env(<<>>)))

Next ==
  \/ \E e \in LogEntries : Punch(e)
  \/ \E t \in ClockTimes : Tick(t)
  \/ \E fullSync \in BOOLEAN :
        \/ GetAttendanceLogs(fullSync, Null, Null, FALSE, <<>>)
        \/ \E answers \in FailingBehaviours :
             GetAttendanceLogs(fullSync, Null, Null, TRUE, answers)
        \/ \E startDate \in StartDates, endDate \in EndDates :
             \E answers \in SequentialBehaviours \ FailingBehaviours :
               GetAttendanceLogs(fullSync, startDate, endDate, TRUE, answers)
  \/ PostSyncAttendance(Null, Null, FALSE, <<>>)
  \/ \E answers \in FailingBehaviours : PostSyncAttendance(Null, Null, TRUE, answers)
  \/ \E startDate \in StartDates, endDate \in EndDates :
        \E answers \in SequentialBehaviours \ FailingBehaviours :
          PostSyncAttendance(startDate, endDate, TRUE, answers)
  \/ PostSyncAttendanceOffline

Spec == Init /\ [][Next]_vars

(* ---- the transport client called on its own ---- *)
\* the users enrolled on the device: those of the entries it stores
DeviceUserList(stored) == [i \in 1..Len(stored) |-> [uid |-> RouteUserId(stored[i])]]

\* what a call of the client leaves: the sequence returned, or the error
ClientResult(method, answers, value) ==
  [IdleRun EXCEPT !.pc = "done", !.route = method, !.answers = answers, !.calls = 1,
                  !.response = IF FetchThrows(answers) THEN "error" ELSE "ok",
                  !.logs = IF FetchThrows(answers) THEN <<>> ELSE value]

CallGetAttendanceLogs(answers) ==
  /\ syncs < MaxSyncs
  /\ syncs' = syncs + 1
  /\ run' = [run EXCEPT ![1] = ClientResult("getAttendanceLogs", answers,
                                            getAttendanceLogs(answers, devLogs))]
  /\ UNCHANGED <<records, nextId, lastSyncAt, devLogs, now, tz>>

CallGetUsers(answers) ==
  /\ syncs < MaxSyncs
  /\ syncs' = syncs + 1
  /\ run' = [run EXCEPT ![1] = ClientResult("getUsers", answers,
                                            getUsers(answers, DeviceUserList(devLogs)))]
  /\ UNCHANGED <<records, nextId, lastSyncAt, devLogs, now, tz>>

NextClient ==
  \/ \E answers \in DeviceBehaviours : CallGetAttendanceLogs(answers)
  \/ \E answers \in DeviceBehaviours : CallGetUsers(answers)

\* the device stores any log of at most MaxLogs entries
InitClient ==
  /\ records = {}
  /\ nextId = 1
  /\ lastSyncAt = Null
  /\ devLogs \in UNION {[1..n -> LogEntries] : n \in 0..MaxLogs}
  /\ now = 49
  /\ tz = 0
  /\ run = [r \in Runs |-> IdleRun]
  /\ syncs = 0

SpecClient == InitClient /\ [][NextClient]_vars

(* ---- requests interleaved step by step ---- *)
\* a new request takes the first slot that serves none
FreeSlot(r) ==
  /\ r \notin InFlight
  /\ \A q \in Runs : q < r => q \in InFlight

BeginGetAttendanceLogs(r, fullSync, startDate, endDate, connected) ==
  /\ FreeSlot(r)
  /\ syncs < MaxSyncs
  /\ syncs' = syncs + 1
  /\ Apply(r, RouteBegin(World(run[r]), fullSync, startDate, endDate, connected))

BeginPostSyncAttendance(r, startDate, endDate, connected) ==
  /\ FreeSlot(r)
  /\ syncs < MaxSyncs
  /\ syncs' = syncs + 1
  /\ Apply(r, LegacyBegin(World(run[r]), startDate, endDate, connected))

BeginPostSyncAttendanceOffline(r) ==
  /\ FreeSlot(r)
  /\ syncs < MaxSyncs
  /\ syncs' = syncs + 1
  /\ Apply(r, OfflineBegin(World(run[r]), Env(<<>>)))

\* one step of the request in slot r
StepRequest(r, answers) ==
  /\ r \in InFlight
  /\ Apply(r, HandlerStep(World(run[r]), Env(answers)))
  /\ UNCHANGED syncs

NextSteps ==
  \/ \E r \in Runs, fullSync \in BOOLEAN, connected \in BOOLEAN :
        BeginGetAttendanceLogs(r, fullSync, Null, Null, connected)
  \/ \E r \in Runs, connected \in BOOLEAN :
        BeginPostSyncAttendance(r, Null, Null, connected)
  \/ \E r \in Runs : BeginPostSyncAttendanceOffline(r)
  \/ \E r \in Runs :
        \E answers \in (IF run[r].pc = "fetch" THEN InterleavedBehaviours ELSE {<<>>}) :
          StepRequest(r, answers)

\* the device logs and the clock the interleaved requests start from
StoredLogs ==
  {<<OldLog(1, 47, 0)>>, <<NewLog(1, 50), NewLog(1, 49)>>, <<NewLog(1, 49), NewLog(1, 50)>>,
   <<OldLog(1, 47, 0), OldLog(1, 50, 1)>>, <<NewLog(2, 47), NewLog(1, 49)>>}

InitSteps ==
  /\ records = {}
  /\ nextId = 1
  /\ lastSyncAt = Null
  /\ devLogs \in StoredLogs
  /\ now \in ClockTimes
  /\ tz \in ServerTZs
  /\ run = [r \in Runs |-> IdleRun]
  /\ syncs = 0

SpecSteps == InitSteps /\ [][NextSteps]_vars

\* requests of the sync route with and without an end date, served one
\* after the other, each in the steps of its handler
NextWindow ==
  \/ \E fullSync \in BOOLEAN, endDate \in EndDates :
        BeginGetAttendanceLogs(1, fullSync, Null, endDate, TRUE)
  \/ \E answers \in (IF run[1].pc = "fetch" THEN InterleavedBehaviours ELSE {<<>>}) :
        StepRequest(1, answers)

SpecWindow == InitSteps /\ [][NextWindow]_vars

(* ---- the aggregators on any device log ---- *)
\* an entry that names its user in field f only
FieldLog(f, u, t) == [NewLog(Null, t) EXCEPT ![f] = u]

\* entries of both formats, entries that name the user in userId or in
\* userSn only, and an entry that names no user
AggregatorEntries ==
  LogEntries \cup {FieldLog("userId", 1, 49), FieldLog("userSn", 1, 50), NewLog(Null, 49)}

\* one request at a time, incremental and without date range, on a device
\* that answers with its log
NextAggregate ==
  \/ BeginGetAttendanceLogs(1, FALSE, Null, Null, TRUE)
  \/ BeginPostSyncAttendance(1, Null, Null, TRUE)
  \/ BeginPostSyncAttendanceOffline(1)
  \/ StepRequest(1, <<"array", "array", "array">>)

InitAggregate ==
  /\ records = {}
  /\ nextId = 1
  /\ lastSyncAt = Null
  /\ devLogs \in UNION {[1..n -> AggregatorEntries] : n \in 0..MaxLogs}
  /\ now = 49
  /\ tz \in ServerTZs
  /\ run = [r \in Runs |-> IdleRun]
  /\ syncs = 0

SpecAggregate == InitAggregate /\ [][NextAggregate]_vars

(* ---- punches while a sync is in progress ---- *)
LiveTimes == {49, 50, 51}

\* mapped user 1 punches now, whether or not a request is being served; the
\* device stamps the entry with the current time, and an entry recorded
\* after lastSyncAt was written carries a later stamp
DevicePunch ==
  /\ Len(devLogs) < MaxLogs
  /\ InFlight # {} \/ lastSyncAt = Null \/ now > lastSyncAt
  /\ devLogs' = Append(devLogs, NewLog(1, now))
  /\ UNCHANGED <<records, nextId, lastSyncAt, now, tz, run, syncs>>

\* the clock advances, whether or not a request is being served
ClockAdvance(t) ==
  /\ t > now
  /\ now' = t
  /\ UNCHANGED <<records, nextId, lastSyncAt, devLogs, tz, run, syncs>>

\* incremental runs of the sync route, one at a time and step by step, on
\* a device that records punches meanwhile
NextLive ==
  \/ DevicePunch
  \/ \E t \in LiveTimes : ClockAdvance(t)
  \/ BeginGetAttendanceLogs(1, FALSE, Null, Null, TRUE)
  \/ StepRequest(1, <<"array", "array", "array">>)

SpecLive == Init /\ [][NextLive]_vars

(* ---- two devices of one tenant synced at the same time ---- *)
\* typed punches of member 1 on UTC day 2
TwoDeviceEntries == {OldLog(1, 48, 0), OldLog(1, 49, 0), OldLog(1, 50, 1), OldLog(1, 51, 1)}

\* devLogs lists the entries of the two devices in turn: device 1 stores
\* those at the odd positions, device 2 those at the even positions
DeviceLog(r) ==
  [k \in 1..((Len(devLogs) + (r % 2)) \div 2) |-> devLogs[2 * k - (r % 2)]]

\* the row of member 1 for day 2 that the requests find
StoredRow == NewRow(1, Gym, 1, 2, 49, 50)

\* the first sync of device r (its lastSyncAt is null), served in slot r
BeginDeviceSync(r) ==
  /\ run[r].pc = "idle"
  /\ syncs < MaxSyncs
  /\ syncs' = syncs + 1
  /\ run' = [run EXCEPT ![r] = RouteBegin([World(run[r]) EXCEPT !.lastSyncAt = Null],
                                          FALSE, Null, Null, TRUE).rn]
  /\ UNCHANGED <<records, nextId, lastSyncAt, devLogs, now, tz>>

\* one step of the request in slot r, which talks to device r
StepDeviceSync(r) ==
  /\ r \in InFlight
  /\ Apply(r, HandlerStep(World(run[r]),
                          [Env(<<"array", "array", "array">>) EXCEPT !.devLogs = DeviceLog(r)]))
  /\ UNCHANGED syncs

NextTwoDevices ==
  \/ \E r \in Runs : BeginDeviceSync(r)
  \/ \E r \in Runs : StepDeviceSync(r)

InitTwoDevices ==
  /\ records = {StoredRow}
  /\ nextId = 2
  /\ lastSyncAt = Null
  /\ devLogs \in [1..MaxLogs -> TwoDeviceEntries]
  /\ now \in ClockTimes
  /\ tz \in ServerTZs
  /\ run = [r \in Runs |-> IdleRun]
  /\ syncs = 0

SpecTwoDevices == InitTwoDevices /\ [][NextTwoDevices]_vars

(* ---- properties ---- *)
\* a run of the sync route that was answered normally
Completed(rn) == rn.pc = "done" /\ rn.response = "ok"

\* C1 Idempotence of incremental sync: an incremental run of the sync route
\* that follows a completed incremental run, fetches the same device log and
\* has the same end of window, creates, updates and deletes no record in its
\* reconciliation loop and reports synced = 0
C1_RepeatedRunChangesNothing ==
  \A r \in Runs :
    (Completed(run[r]) /\ run[r].repeated) =>
      (run[r].untouched /\ run[r].synced = 0 /\ run[r].deleted = 0)

\* C2 Uniqueness: in every state, whatever the interleaving of sync route,
\* offline and legacy requests with their repairs and closer passes, no two
\* rows share (gymId, memberId, date)
C2_OneRecordPerMemberAndDate ==
  \A x \in records : \A y \in records :
    (x.gymId = y.gymId /\ x.memberId = y.memberId /\ x.date = y.date) => x.id = y.id

\* the key of the row the request is about to write
PendingMember(rn) ==
  IF rn.route = "legacy" THEN MemberOf(LegacyUserId(Head(rn.groups)))
  ELSE Head(rn.groups).memberId
PendingDate(rn, z) ==
  IF rn.route = "route" THEN RouteDateOnly(Head(rn.groups))
  ELSE IF rn.route = "legacy" THEN LocalDateOnly(Head(rn.groups).timestamp, z)
  ELSE DbDate(Head(rn.groups).day * 24 - z)

\* a request found no row and is about to create one that another request
\* has created meanwhile
C2_Witness ==
  \E r \in Runs :
    /\ run[r].pc = "write"
    /\ run[r].existing.id = Null
    /\ UniqueViolation(records, Gym, PendingMember(run[r]), PendingDate(run[r], tz))

\* the step is a request of the given routes served to its normal end
Served(routes) ==
  /\ syncs' # syncs
  /\ run'[1].route \in routes
  /\ Completed(run'[1])

\* no row that persists has its check-in moved later or removed, or its
\* check-out moved earlier or removed
BoundsOnlyExtend ==
  \A x \in records : \A y \in records' :
    x.id = y.id =>
      /\ x.checkInTime # Null => (y.checkInTime # Null /\ y.checkInTime <= x.checkInTime)
      /\ x.checkOutTime # Null => (y.checkOutTime # Null /\ y.checkOutTime >= x.checkOutTime)

\* C3 Monotonic bounds: over a run of the sync route or of the legacy
\* service, closer pass included, a row that persists has a non-null
\* checkInTime replaced only by an earlier instant and a non-null
\* checkOutTime only by a later one
C3_MonotonicBounds == [][Served({"route", "legacy"}) => BoundsOnlyExtend]_vars

\* a legacy run whose only write extended the one row ever created to
\* check-in 47 and check-out 50
C3_Witness ==
  /\ Completed(run[1])
  /\ run[1].route = "legacy"
  /\ run[1].synced = 1
  /\ nextId = 2
  /\ \E x \in records : x.checkInTime = 47 /\ x.checkOutTime = 50

\* instants of the punches stored on the device
PunchInstants == {LogDate(devLogs[i]) : i \in 1..Len(devLogs)}

\* the row is built from punches of the device: its bounds are punch
\* instants, but for a check-out the closer set one hour after the check-in
RebuiltFromPunches(y) ==
  /\ y.checkInTime # Null \/ y.checkOutTime # Null
  /\ y.checkInTime # Null => y.checkInTime \in PunchInstants
  /\ y.checkOutTime # Null =>
       \/ y.checkOutTime \in PunchInstants
       \/ y.checkInTime # Null /\ y.checkOutTime = PlusOneHour(y.checkInTime)

\* C4 Full-resync cleanliness: after a completed run with fullSync = true no
\* row that existed before the run is left, and every row present is rebuilt
\* from punches of the device
C4_FullSyncRebuilds ==
  [][(Served({"route"}) /\ run'[1].fullSync) =>
       /\ \A x \in records : ~ \E y \in records' : y.id = x.id
       /\ \A y \in records' : RebuiltFromPunches(y)]_vars

\* a full sync that wiped rows and rebuilt some
C4_Witness ==
  /\ Completed(run[1])
  /\ run[1].route = "route"
  /\ run[1].fullSync
  /\ run[1].deleted > 0
  /\ run[1].synced > 0

TwoUntypedPunches(logs) ==
  /\ Len(logs) = 2
  /\ \A i \in 1..2 : ~HasKind(logs[i]) /\ LogDate(logs[i]) # Null
  /\ RouteUserId(logs[1]) = RouteUserId(logs[2])
  /\ MemberOf(RouteUserId(logs[1])) # Null
  /\ LogDate(logs[1]) # LogDate(logs[2])

\* the session the aggregator of the request derives from its first group
FirstSession(rn) ==
  IF rn.route = "route"
  THEN [checkIn |-> EarliestCheckIn(rn.acc.groups[1]),
        checkOut |-> LatestCheckOut(rn.acc.groups[1])]
  ELSE OfflineSession(rn.groups[1])

\* all the entries fetched (posted) fell into one member-day group
OneGroupOfAll(rn) ==
  IF rn.route = "route"
  THEN Len(rn.acc.groups) = 1 /\ rn.acc.processedLogs = Len(rn.logs)
  ELSE Len(rn.groups) = 1 /\ Len(rn.groups[1].logs) = Len(rn.logs)

\* the request has grouped its entries and written nothing yet
Aggregated(rn) ==
  /\ rn.route \in {"route", "offline"}
  /\ rn.pc = "find"
  /\ rn.synced = 0 /\ rn.errors = 0
  /\ rn.groups # <<>>
  /\ rn.route = "route" => rn.groups = rn.acc.groups

\* C6 Unknown-kind inference for two punches: a member-day group of exactly
\* two punches without type and state, at t1 < t2, in whichever order the
\* device returns them, gives the session check-in = t1, check-out = t2, in
\* the sync route and in the offline route
C6_TwoUntypedPunches ==
  \A r \in Runs :
    (Aggregated(run[r]) /\ TwoUntypedPunches(run[r].logs) /\ OneGroupOfAll(run[r])) =>
      LET t == {LogDate(run[r].logs[1]), LogDate(run[r].logs[2])}
          t1 == CHOOSE a \in t : \A b \in t : a <= b
          t2 == CHOOSE a \in t : \A b \in t : a >= b
      IN FirstSession(run[r]) = [checkIn |-> t1, checkOut |-> t2]

\* the only entry is a punch of a mapped user that is a check-in by its
\* type or state, or carries neither
SinglePunch(logs) ==
  /\ Len(logs) = 1
  /\ LogDate(logs[1]) # Null
  /\ MemberOf(RouteUserId(logs[1])) # Null
  /\ HasKind(logs[1]) => KindIsCheckIn(logs[1])

\* C7 Single-punch synthesis: a member-day group of a single check-in punch
\* at t, or of a single punch without type and state, gives a session with
\* checkIn = t and checkOut = t + 1 hour, and the row written for it has
\* these bounds
C7_SinglePunchSession ==
  \A r \in Runs :
    LET rn == run[r]
        t == LogDate(rn.logs[1])
    IN /\ (Aggregated(rn) /\ SinglePunch(rn.logs) /\ OneGroupOfAll(rn)) =>
            FirstSession(rn) = [checkIn |-> t, checkOut |-> PlusOneHour(t)]
       /\ (/\ rn.route \in {"route", "offline"}
           /\ rn.pc = "advance" /\ SinglePunch(rn.logs) /\ rn.synced = 1 /\ syncs = 1) =>
            \E x \in records : x.checkInTime = t /\ x.checkOutTime = PlusOneHour(t)

\* the server's current calendar day
Today == LocalDay(now, tz)

\* the step is the closer pass of the request in slot r
CloserPass(r) == run[r].pc = "close" /\ run'[r].pc = "finish"

\* what a closer pass is to do with row x
Closed(x) ==
  IF x.gymId = Gym /\ x.checkInTime # Null /\ x.checkOutTime = Null /\ x.date < Today
  THEN [x EXCEPT !.checkOutTime = PlusOneHour(x.checkInTime)]
  ELSE x

\* C8 Incomplete-session closure: a closer pass sets checkOutTime =
\* checkInTime + 1 hour on every row of the tenant with a check-in, no
\* check-out and a date strictly before today, and leaves every other row,
\* those dated today among them, unchanged
C8_CloserPass ==
  [][\A r \in Runs : CloserPass(r) => records' = {Closed(x) : x \in records}]_vars

\* C9 Connection release: no request is answered with the device connection
\* still held, whichever way the handler is left
C9_ConnectionReleased ==
  \A r \in Runs : run[r].pc = "done" => ~run[r].held

\* a request that had connected and returned early after a device timeout,
\* and one that had connected and ran to its normal end
C9_Witness ==
  \E r \in Runs :
    /\ run[r].pc = "done"
    /\ run[r].inTry /\ run[r].calls > 0
    /\ run[r].response = "timeout"

\* first call, of at most n, that the device answers with its log; 0 if none
RECURSIVE FirstGood(_, _, _)
FirstGood(answers, i, n) ==
  IF i > n THEN 0
  ELSE IF answers[i] \in GoodAnswers THEN i
  ELSE FirstGood(answers, i + 1, n)

\* C10 Fetch retry: the fetch of the sync route calls the device again, up to
\* 3 times in all, when the device times out or answers with a malformed or
\* empty response; it returns the log of the first call that succeeds and
\* fails with the device-timeout error only when all calls have failed
C10_FetchRetries ==
  \A r \in Runs :
    LET rn == run[r]
        good == FirstGood(rn.answers, 1, 3)
    IN (rn.route = "route" /\ rn.answers # <<>> /\ rn.answers[1] # "error") =>
         IF good > 0
         THEN rn.calls = good /\ rn.response # "timeout" /\ rn.logs = devLogs
         ELSE rn.calls = 3 /\ rn.response = "timeout"

\* the write the request in rn is about to attempt throws: the row to update
\* is gone, or the key of the row to create is taken and the handler has no
\* fallback for it
WriteFails(rn, z) ==
  /\ rn.pc = "write"
  /\ IF rn.existing.id # Null
     THEN /\ ~ \E x \in records : x.id = rn.existing.id
          /\ rn.route = "route" =>
                RouteWasUpdated(rn.existing, EarliestCheckIn(Head(rn.groups)),
                                LatestCheckOut(Head(rn.groups)))
          /\ rn.route = "legacy" =>
                \/ LegacyNewCheckIn(rn.existing, Head(rn.groups)) # Null
                \/ LegacyNewCheckOut(rn.existing, Head(rn.groups)) # Null
     ELSE /\ rn.route # "route"
          /\ UniqueViolation(records, Gym, PendingMember(rn), PendingDate(rn, z))

\* C11 Per-record error isolation: when the write of one session throws, the
\* error counter grows by one, no row written so far changes, the loop goes
\* on with the remaining sessions, and the run still advances lastSyncAt and
\* answers with its summary
C11_ErrorIsolation ==
  [][\A r \in Runs :
       /\ (WriteFails(run[r], tz) /\ run'[r] # run[r]) =>
            /\ run'[r].errors = run[r].errors + 1
            /\ run'[r].synced = run[r].synced
            /\ records' = records
            /\ run'[r].groups = Tail(run[r].groups)
            /\ run'[r].pc = AfterGroup(run[r])
       /\ (run[r].pc = "advance" /\ run'[r] # run[r]) =>
            (lastSyncAt' = now /\ run'[r].errors = run[r].errors)
       /\ (run'[r].pc = "done" /\ run'[r].errors > 0 /\ run'[r].route # "legacy") =>
            run'[r].response = "ok"]_vars

\* a request of the sync route or the offline route that met a failing
\* write and was answered
C11_Witness ==
  \E r \in Runs :
    /\ run[r].pc = "done"
    /\ run[r].route \in {"route", "offline"}
    /\ run[r].errors > 0
    /\ run[r].synced > 0

\* the rows stored under the key the request in rn is about to write
RowsOfPending(recs, rn, z) ==
  {x \in recs : /\ x.gymId = Gym
                /\ x.memberId = PendingMember(rn)
                /\ x.date = PendingDate(rn, z)}

\* the request in slot r found no row, another request has created the row
\* meanwhile, and r now attempts its create
LosesCreateRace(r) ==
  /\ run[r].route = "route"
  /\ run[r].pc = "write"
  /\ run[r].existing.id = Null
  /\ RowsOfPending(records, run[r], tz) # {}
  /\ run'[r] # run[r]

\* C12 Create race: the sync run that loses the race for a new key neither
\* fails nor counts an error; it re-reads the row and applies its session to
\* it as an update, and exactly one row has the key afterwards
C12_CreateRace ==
  [][\A r \in Runs :
       LosesCreateRace(r) =>
         LET g == Head(run[r].groups)
             cin == EarliestCheckIn(g)
             cout == LatestCheckOut(g)
         IN /\ run'[r].errors = run[r].errors
            /\ run'[r].pc = AfterGroup(run[r])
            /\ Cardinality(RowsOfPending(records', run[r], tz)) = 1
            /\ \A x \in RowsOfPending(records, run[r], tz) :
                 \E y \in records' :
                   /\ y.id = x.id
                   /\ y.checkInTime = RouteNewCheckIn(x, cin)
                   /\ y.checkOutTime = RouteNewCheckOut(x, cout)]_vars

\* a sync run that lost a create race, updated the winner's row instead
\* and was answered without an error
C12_Witness ==
  \E r \in Runs :
    /\ run[r].pc = "done"
    /\ run[r].route = "route"
    /\ run[r].fallbacks > 0
    /\ run[r].synced > 0
    /\ run[r].errors = 0
    /\ run[r].response = "ok"

\* the sync run in rn has connected to the device and has not yet updated
\* lastSyncAt
Syncing(rn) ==
  /\ rn.route = "route"
  /\ rn.held
  /\ rn.pc \in {"fetch", "wipe", "find", "write", "advance"}

\* C13 Per-device serialization: no two sync runs of the device are in
\* progress at the same time; a second request does not fetch or write
\* while the first is between its connect and its lastSyncAt update
C13_OneSyncPerDevice ==
  \A r \in Runs : \A q \in Runs :
    (Syncing(run[r]) /\ Syncing(run[q])) => r = q

\* C14 No timestamp-less records: no sync, online, offline or legacy,
\* creates a row or updates one into a state in which checkInTime and
\* checkOutTime are both null
C14_NoRecordWithoutTimes ==
  \A x \in records : x.checkInTime # Null \/ x.checkOutTime # Null

\* a sync run has created a row from a session with one bound only
C14_Witness ==
  /\ Completed(run[1])
  /\ run[1].route = "route"
  /\ run[1].synced > 0
  /\ \E x \in records : x.checkInTime = Null /\ x.checkOutTime # Null

\* the UTC calendar date of the row's check-in, of its check-out when it has
\* no check-in
DateOfBounds(y) ==
  UTCDay(IF y.checkInTime # Null THEN y.checkInTime ELSE y.checkOutTime)

\* C15 Record dating: every row a sync run, online or offline, creates is
\* stored under the UTC calendar date of the session's final check-in, or of
\* its check-out when the session has no check-in
C15_RecordDating ==
  [][Served({"route", "offline"}) =>
       \A y \in records' :
         (~ \E x \in records : x.id = y.id) => y.date = DateOfBounds(y)]_vars

\* the request is an incremental run of the sync route for a device whose
\* lastSyncAt was set, and has grouped the log it fetched
GroupedIncrementally(rn) ==
  /\ rn.route = "route"
  /\ ~rn.fullSync
  /\ rn.deviceLastSyncAt # Null
  /\ rn.pc \in {"find", "write", "advance"}

\* the punch of member m at instant t is a check-in or a check-out of one of
\* the groups
Contributes(groups, m, t) ==
  \E i \in 1..Len(groups) :
    /\ groups[i].memberId = m
    /\ \/ \E j \in 1..Len(groups[i].checkIns) : groups[i].checkIns[j] = t
       \/ \E j \in 1..Len(groups[i].checkOuts) : groups[i].checkOuts[j] = t

C17_LastSyncAdvance ==
  [][/\ Served({"route", "offline", "legacy"}) =>
          /\ lastSyncAt' = now
          /\ run'[1].route = "route" =>
               /\ run'[1].summary.previousSyncAt = lastSyncAt
               /\ run'[1].summary.lastSyncAt = now
     /\ lastSyncAt' >= lastSyncAt]_vars

\* a full sync, served after an earlier run and a move of the clock, that
\* counted the earlier lastSyncAt as previousSyncAt
C17_Witness ==
  /\ Completed(run[1])
  /\ run[1].route = "route"
  /\ run[1].fullSync
  /\ run[1].summary.previousSyncAt = 49
  /\ lastSyncAt = 82

\* what the device holds for the call: its attendance log, or its users
Payload(rn) ==
  IF rn.route = "getAttendanceLogs" THEN devLogs ELSE DeviceUserList(devLogs)

\* C18 Envelope normalization: getAttendanceLogs and getUsers return the
\* same sequence whether the library answers with a plain array, with
\* { data: [...] } or with { users: [...] }, and fail with an
\* unexpected-format error when the answer has none of these shapes
C18_EnvelopeNormalization ==
  \A r \in Runs :
    (run[r].pc = "done" /\ run[r].route \in {"getAttendanceLogs", "getUsers"}) =>
      LET shape == run[r].answers[1] IN
      /\ shape \in {"array", "data", "users"} =>
           (run[r].response = "ok" /\ run[r].logs = Payload(run[r]))
      /\ shape \in {"nodata", "other"} => run[r].response = "unexpected-format"

\* the five counters of the grouping loop
SkipCounters ==
  {"processedLogs", "skippedNoTimestamp", "skippedDateFilter", "skippedNoUserId",
   "skippedUnmapped"}

\* every fetched entry is counted exactly once
CountedOnce(rn) ==
  rn.acc.processedLogs + rn.acc.skippedNoTimestamp + rn.acc.skippedDateFilter
    + rn.acc.skippedNoUserId + rn.acc.skippedUnmapped = Len(rn.logs)

\* C19 Skip accounting: the counters processed, skipped-no-timestamp,
\* skipped-date-filter, skipped-no-user-id and skipped-unmapped of a sync run
\* sum to the number of entries fetched, and the summary returned to the
\* caller reports all five
C19_SkipAccounting ==
  \A r \in Runs :
    (run[r].route = "route" /\ run[r].pc = "finish" /\ run[r].response = "ok") =>
      /\ CountedOnce(run[r])
      /\ SkipCounters \subseteq DOMAIN run[r].summary
      /\ \A c \in SkipCounters : run[r].summary[c] = run[r].acc[c]

\* a row that persists has its stored check-in replaced only by an earlier
\* instant and its stored check-out only by a later one
StoredBoundsExtended ==
  \A x \in records : \A y \in records' :
    x.id = y.id =>
      /\ (x.checkInTime # Null /\ y.checkInTime # x.checkInTime) =>
           (y.checkInTime # Null /\ y.checkInTime < x.checkInTime)
      /\ (x.checkOutTime # Null /\ y.checkOutTime # x.checkOutTime) =>
           (y.checkOutTime # Null /\ y.checkOutTime > x.checkOutTime)

\* C20 Offline upsert extends, never shrinks: when POST
\* /:id/sync-attendance-offline processes a session whose (tenantId,
\* memberId, date) row already exists, the stored check-in is replaced only
\* if the session's check-in is earlier and the stored check-out only if the
\* session's check-out is later
C20_OfflineUpsertExtends == [][Served({"offline"}) => StoredBoundsExtended]_vars

\* positions of the entries of a log without type and state, and with
TypedAt(logs) == {i \in 1..Len(logs) : HasKind(logs[i])}
UntypedAt(logs) == {i \in 1..Len(logs) : ~HasKind(logs[i])}

\* instants of the typed check-ins and of the typed check-outs of a log
KnownCheckIns(logs) == {LogDate(logs[i]) : i \in {j \in TypedAt(logs) : KindIsCheckIn(logs[j])}}
KnownCheckOuts(logs) == {LogDate(logs[i]) : i \in {j \in TypedAt(logs) : ~KindIsCheckIn(logs[j])}}

SetMin(S) == CHOOSE a \in S : \A b \in S : a <= b
SetMax(S) == CHOOSE a \in S : \A b \in S : a >= b

\* the kinds the precedence rules allow for an untyped punch at t, given the
\* known check-ins and check-outs of its group (either kind when the nearer
\* rule ties)
RuleKinds(ins, outs, t) ==
  IF ins # {} /\ \A c \in ins : t < c THEN {"in"}
  ELSE IF outs # {} /\ \A c \in outs : t > c THEN {"out"}
  ELSE IF ins # {} /\ outs # {}
    THEN (IF Dist(t, SetMin(ins)) < Dist(t, SetMax(outs)) THEN {"in"}
          ELSE IF Dist(t, SetMin(ins)) > Dist(t, SetMax(outs)) THEN {"out"}
          ELSE {"in", "out"})
  ELSE IF ins # {} THEN (IF t > SetMax(ins) THEN {"out"} ELSE {"in"})
  ELSE IF outs # {} THEN (IF t < SetMin(outs) THEN {"in"} ELSE {"out"})
  ELSE {"in", "out"}

\* number of check-ins the aggregator of the request has in its first group
ClassifiedCheckIns(rn) ==
  IF rn.route = "route" THEN Len(rn.acc.groups[1].checkIns)
  ELSE Len(OfflineResolved(rn.groups[1]).checkIns)

\* the log is one member-day group of typed punches and one untyped punch
OneUntypedAmongTyped(rn) ==
  /\ Aggregated(rn)
  /\ OneGroupOfAll(rn)
  /\ Cardinality(UntypedAt(rn.logs)) = 1
  /\ TypedAt(rn.logs) # {}

\* the kind the aggregator gave to the one untyped punch
KindOfUntyped(rn) ==
  IF ClassifiedCheckIns(rn)
       = Cardinality({j \in TypedAt(rn.logs) : KindIsCheckIn(rn.logs[j])}) + 1
  THEN "in" ELSE "out"

\* C21 Unknown-kind rule precedence: in a member-day group that also holds
\* typed punches, an untyped punch gets the kind of the first matching rule
\* (earlier than every known check-in: check-in; later than every known
\* check-out: check-out; both kinds known: the nearer of earliest check-in
\* and latest check-out; only check-ins known: check-out iff later than the
\* latest check-in; only check-outs known: check-in iff earlier than the
\* earliest check-out), in the sync route and in the offline route and in
\* whichever order the device returned the punches
C21_UnknownKindPrecedence ==
  \A r \in Runs :
    OneUntypedAmongTyped(run[r]) =>
      LET logs == run[r].logs
          t == LogDate(logs[CHOOSE i \in UntypedAt(logs) : TRUE])
      IN KindOfUntyped(run[r]) \in RuleKinds(KnownCheckIns(logs), KnownCheckOuts(logs), t)

\* the session the aggregator of the request derives from group g
SessionOf(rn, g) ==
  IF rn.route = "route"
  THEN [checkIn |-> EarliestCheckIn(g), checkOut |-> LatestCheckOut(g)]
  ELSE OfflineSession(g)

\* C22 Session bounds: every session the aggregator of the sync route or of
\* the offline route hands to the writer has a check-in and a check-out,
\* the check-out strictly later than the check-in (a missing side being the
\* present side plus or minus one hour, a check-out not later than the
\* check-in being forced to check-in + 1 hour)
C22_SessionBounds ==
  \A r \in Runs :
    Aggregated(run[r]) =>
      \A i \in 1..Len(run[r].groups) :
        LET ses == SessionOf(run[r], run[r].groups[i])
        IN /\ ses.checkIn # Null
           /\ ses.checkOut # Null
           /\ ses.checkOut > ses.checkIn

\* first present field among deviceUserId, id, uid, userId, userSn
FirstPresentUserId(log) ==
  IF log.deviceUserId # Null THEN log.deviceUserId
  ELSE IF log.id # Null THEN log.id
  ELSE IF log.uid # Null THEN log.uid
  ELSE IF log.userId # Null THEN log.userId
  ELSE IF log.userSn # Null THEN log.userSn
  ELSE Null

\* the request has grouped the log it fetched (was posted) and written
\* nothing yet
Grouped(rn) ==
  /\ rn.route \in {"route", "offline"}
  /\ rn.pc \in {"find", "advance"}
  /\ rn.synced = 0 /\ rn.errors = 0
  /\ rn.route = "route" => rn.groups = rn.acc.groups

\* the punch of member m at instant t is in one of the groups of the request
InSomeGroup(rn, m, t) ==
  IF rn.route = "route" THEN Contributes(rn.groups, m, t)
  ELSE \E i \in 1..Len(rn.groups) :
         /\ rn.groups[i].memberId = m
         /\ \E j \in 1..Len(rn.groups[i].logs) : rn.groups[i].logs[j].logDate = t

\* C23 Device user id resolution: in the sync route and in the offline
\* route the device user id of an entry is its first present field among
\* deviceUserId, id, uid, userId, userSn: an entry with a timestamp whose
\* first present field names a mapped user is grouped under that user's
\* member, and the sync route counts as no-user-id exactly the entries with
\* none of the five fields
C23_DeviceUserIdResolution ==
  \A r \in Runs :
    (Grouped(run[r]) /\ run[r].deviceLastSyncAt = Null) =>
      LET rn == run[r] IN
      /\ \A i \in 1..Len(rn.logs) :
           (LogDate(rn.logs[i]) # Null /\ MemberOf(FirstPresentUserId(rn.logs[i])) # Null) =>
             InSomeGroup(rn, MemberOf(FirstPresentUserId(rn.logs[i])), LogDate(rn.logs[i]))
      /\ rn.route = "route" =>
           rn.acc.skippedNoUserId
             = Cardinality({i \in 1..Len(rn.logs) :
                              LogDate(rn.logs[i]) # Null
                                /\ FirstPresentUserId(rn.logs[i]) = Null})

\* the step is the request in slot r failing to connect to the device
ConnectFails(r) ==
  /\ run[r].pc \in {"idle", "done"}
  /\ run'[r].pc \notin {"idle", "done"}
  /\ run'[r].route \in {"route", "legacy"}
  /\ ~run'[r].held

\* the step is the fetch of the request in slot r, and the device call throws
FetchFails(r) ==
  /\ run[r].pc = "fetch"
  /\ run'[r] # run[r]
  /\ FetchThrows(run'[r].answers)

\* the step answers a request that had failed
AnswersFailure(r) ==
  /\ run[r].pc = "finish"
  /\ run[r].response \in {"error", "timeout"}
  /\ run'[r].pc = "done"

\* C24 Transport failure aborts the run: when a run of the sync route
\* (incremental or full) or of the legacy service cannot connect, or its
\* fetch throws or times out, the run goes straight to its error answer
\* having created, updated and deleted no row and with lastSyncAt as it was
C24_TransportFailureAborts ==
  [][\A r \in Runs :
       /\ (ConnectFails(r) \/ FetchFails(r)) =>
            /\ UNCHANGED <<records, lastSyncAt>>
            /\ run'[r].pc = "finish"
            /\ run'[r].response \in {"error", "timeout"}
            /\ run'[r].synced = 0 /\ run'[r].deleted = 0
            /\ run'[r].newLastSyncAt = Null
       /\ AnswersFailure(r) =>
            /\ UNCHANGED <<records, lastSyncAt>>
            /\ run'[r].response = run[r].response
            /\ ~run'[r].summary.sent]_vars

\* a full sync answered with the device-timeout error after an earlier run
\* had stored a row and set lastSyncAt: the row and lastSyncAt are still there
C24_Witness ==
  \E r \in Runs :
    /\ run[r].pc = "done"
    /\ run[r].route = "route" /\ run[r].fullSync
    /\ run[r].response = "timeout"
    /\ run[r].calls > 0
    /\ records # {}
    /\ lastSyncAt # Null

\* (member, date, checkInTime, checkOutTime) of the rows of a table
RowsByMember(recs) ==
  {[memberId |-> x.memberId, date |-> x.date, checkInTime |-> x.checkInTime,
    checkOutTime |-> x.checkOutTime] : x \in recs}

\* the table the offline route leaves when it is posted the log, and the
\* table syncAttendanceFromDevice leaves when the device returns it, both
\* starting from the present table
TableAfterOffline ==
  RunToEnd(OfflineBegin(World(IdleRun), Env(<<>>)), Env(<<>>)).records
TableAfterLegacy ==
  RunToEnd(LegacyBegin(World(IdleRun), Null, Null, TRUE),
           Env(<<"array", "array", "array">>)).records

\* C25 Offline/online equivalence: from the same table and the same active
\* mappings, a list of log entries processed by POST
\* /:id/sync-attendance-offline leaves the same rows (date, checkInTime,
\* checkOutTime per member) as the list processed by syncAttendanceFromDevice
C25_OfflineLegacyEquivalence ==
  InFlight = {} => RowsByMember(TableAfterOffline) = RowsByMember(TableAfterLegacy)

\* a row of the tenant with a check-in and no check-out, dated before the
\* server's current day
OpenBeforeToday(x) ==
  x.gymId = Gym /\ x.checkInTime # Null /\ x.checkOutTime = Null /\ x.date < Today

\* C26 Closer runs after every sync: every completed run of the sync route,
\* of the offline route and of the legacy service has advanced lastSyncAt and
\* run the closer, so that when it completes no row of the tenant dated
\* strictly before today has a check-in and no check-out; a row left open
\* is closed by the first sync that completes after its day has elapsed
C26_CloserAfterEverySync ==
  [][Served({"route", "offline", "legacy"}) =>
       /\ lastSyncAt' = now
       /\ \A x \in records' : ~OpenBeforeToday(x)]_vars

\* a legacy run that wrote no row itself and whose closer pass closed a row
\* an earlier run had left open on its own day
C26_Witness ==
  /\ Completed(run[1])
  /\ run[1].route = "legacy"
  /\ run[1].synced = 0
  /\ run[1].autoCheckedOut > 0
  /\ \E x \in records :
       x.date < Today /\ x.checkInTime # Null /\ x.checkOutTime = PlusOneHour(x.checkInTime)

\* some row of member m holds instant t within its bounds
Reflected(recs, m, t) ==
  \E x \in recs :
    /\ x.gymId = Gym /\ x.memberId = m
    /\ \/ x.checkInTime = t
       \/ x.checkOutTime = t
       \/ x.checkInTime # Null /\ x.checkOutTime # Null
            /\ x.checkInTime <= t /\ t <= x.checkOutTime

\* C27 No lost punches: over any sequence of incremental runs of the sync
\* route, when a run completes every punch of a mapped user that was on the
\* device when the run fetched the log lies within the bounds of a row of
\* the member; so a punch recorded while a run was in progress is in a row
\* once the next run completes
C27_NoLostPunches ==
  \A r \in Runs :
    (/\ run[r].route = "route" /\ ~run[r].fullSync
     /\ run[r].pc = "finish" /\ run[r].response = "ok") =>
      \A i \in 1..Len(run[r].logs) :
        LET log == run[r].logs[i]
        IN (LogDate(log) # Null /\ MemberOf(RouteUserId(log)) # Null) =>
             Reflected(records, MemberOf(RouteUserId(log)), LogDate(log))

\* C28 No lost update under interleaving: when the runs for two devices of
\* the tenant interleave their read-then-update steps on the stored row of a
\* member and day, then once both have completed the row's checkInTime is
\* the earliest and its checkOutTime the latest among the stored values and
\* the bounds of both runs' sessions
C28_NoLostUpdate ==
  (\A r \in Runs : Completed(run[r])) =>
    \E x \in records :
      /\ x.id = StoredRow.id
      /\ x.checkInTime = SetMin({StoredRow.checkInTime} \cup KnownCheckIns(devLogs))
      /\ x.checkOutTime = SetMax({StoredRow.checkOutTime} \cup KnownCheckOuts(devLogs))

\* C29 Persisted bound ordering: in every state reached by syncs of the
\* sync route, of the offline route and of the legacy service with their
\* closer passes, every row with a checkInTime and a checkOutTime has the
\* checkOutTime strictly later than the checkInTime
C29_PersistedBoundOrdering ==
  \A x \in records :
    (x.checkInTime # Null /\ x.checkOutTime # Null) => x.checkOutTime > x.checkInTime

(* ---- the mismatch repair among the rows of other members and tenants ---- *)
\* rows left by earlier syncs: dated by the local day of a server west of
\* UTC (date 1 for an instant of UTC day 2, date 0 for one of UTC day 1),
\* dated by the UTC day, of member 2, and of tenant 2
RepairRows ==
  {NewRow(1, Gym, 1, 1, 49, Null), NewRow(2, Gym, 1, 1, Null, 49),
   NewRow(3, Gym, 1, 2, 50, Null), NewRow(4, Gym, 1, 0, 25, 26),
   NewRow(5, Gym, 2, 1, 49, Null), NewRow(6, 2, 1, 1, 49, Null)}

\* the tables the unique index gymId_memberId_date allows
RepairTables ==
  {T \in SUBSET RepairRows :
     \A x, y \in T : (x.gymId = y.gymId /\ x.memberId = y.memberId /\ x.date = y.date)
                       => x = y}

RepairLogs ==
  {<<NewLog(1, 49)>>, <<OldLog(1, 47, 0)>>, <<OldLog(1, 47, 0), NewLog(1, 50)>>}

InitRepair ==
  /\ records \in RepairTables
  /\ nextId = 7
  /\ lastSyncAt = Null
  /\ devLogs \in RepairLogs
  /\ now = 49
  /\ tz \in ServerTZs
  /\ run = [r \in Runs |-> IdleRun]
  /\ syncs = 0

\* requests of the sync route, served one after the other, each in the
\* steps of its handler
NextRepair ==
  \/ \E fullSync \in BOOLEAN : BeginGetAttendanceLogs(1, fullSync, Null, Null, TRUE)
  \/ StepRequest(1, <<"array", "array", "array">>)

SpecRepair == InitRepair /\ [][NextRepair]_vars

\* the step is the repair and the lookup of one session of the sync route
RepairStep == run[1].route = "route" /\ run[1].pc = "find" /\ run'[1].pc = "write"

\* the rows of the table that the step removed
RemovedRows == {x \in records : \A y \in records' : y.id # x.id}

\* the instant the repair dates a row by
RowInstant(x) == IF x.checkInTime # Null THEN x.checkInTime ELSE x.checkOutTime

\* C30 Mismatch repair frame: the repair step of a session of member M with
\* target date D removes only rows of the same tenant and of M whose
\* check-in (check-out when there is no check-in) falls on UTC date D and
\* whose date is not D, and changes no other row; and the deletedCount of
\* the summary of a run is the number of rows the run deleted
C30_MismatchRepairFrame ==
  [][/\ RepairStep =>
          LET g == Head(run[1].groups)
              D == UTCDay(AttendanceDate(g))
          IN /\ records' \subseteq records
             /\ \A x \in RemovedRows :
                  /\ x.gymId = Gym
                  /\ x.memberId = g.memberId
                  /\ RowInstant(x) # Null
                  /\ UTCDay(RowInstant(x)) = D
                  /\ x.date # D
     /\ (run[1].route = "route" /\ run[1].pc = "finish" /\ run[1].response = "ok")
          => run'[1].summary.deletedCount =
               Cardinality({x \in run[1].before : \A y \in records' : y.id # x.id})]_vars

\* an incremental run answered after its repair deleted a row while rows
\* of another member and of another tenant with the same instant and date
\* are still stored
C30_Witness ==
  /\ Completed(run[1])
  /\ run[1].route = "route"
  /\ ~run[1].fullSync
  /\ run[1].summary.deletedCount = 1
  /\ \E x \in records : x.id = 5 /\ x.memberId = 2 /\ x.date = 1 /\ x.checkInTime = 49
  /\ NewRow(6, 2, 1, 1, 49, Null) \in records
  /\ \A x \in records : x.id \notin {1, 2}

====
